---- MODULE Spec2Model ----
(***************************************************************************)
(* Beam-search generation of event sequences:                              *)
(* magenta/models/shared/events_rnn_model.py, class EventSequenceRnnModel. *)
(*                                                                         *)
(* Event sequences are mutable Python objects, so they live in a heap      *)
(* (object id -> contents) and the lists of the program hold object ids.   *)
(* copy.deepcopy allocates a new object; extend_event_sequences appends    *)
(* to an object in place.  Objects no list refers to any more are dropped  *)
(* from the heap (reference counting).                                     *)
(*                                                                         *)
(* The file is Python 2 code (six.moves.range, range(a / b)): `/` on two   *)
(* ints is floor division, \div here.                                      *)
(*                                                                         *)
(* The trained network and the encoder/decoder are collaborators outside   *)
(* the file.  The network is a deterministic function: its state after a   *)
(* call is the history of the events it has consumed, and the softmax it   *)
(* reports is a function of that history.  The encoder/decoder's choice    *)
(* of the next event is the nondeterminism (sampling), or the most         *)
(* probable event under the greedy policy.  A probability p is kept as     *)
(* the natural number m with p = e^(-m); np.log maps it to -m.             *)
(***************************************************************************)
EXTENDS Integers, Sequences, FiniteSets, TLC

\* ---------------------------------------------------------------- bounds
MaxPrimerLen == 1
MaxNumSteps == 11
MaxBeamSize == 2
MaxBranchFactor == 2
MaxStepsPerIteration == 2
MaxPopulation == 3
MaxK == 4
NumLoglikLevels == 3
\* the most events a generation with the sampling policy draws in all
MaxSampledEvents == 7
\* the most events a generation whose termination is checked draws, with
\* the sampling policy and with the greedy policy
MaxFairSampledEvents == 4
MaxFairGreedyEvents == 10
\* the most candidates and the largest batch size of a _generate_step call
\* checked on its own
MaxCandidates == 3
MaxBatchSize == 4

\* the event vocabulary of the encoder/decoder
Events == {"A", "B"}

\* the two selection policies of the encoder/decoder collaborator
Policies == {"sample", "greedy"}

\* the batch size of the configuration left as it came
batch_size_AsConfigured == MaxBatchSize

\* self._config.hparams.batch_size, forced by the constructor
batch_size == 1

\* the object id of the caller's primer_events
primer_events == 0

VARIABLES
  num_steps,              \* _generate_events argument: target total length
  beam_size,
  branch_factor,
  steps_per_iteration,
  policy,                 \* selection policy of the encoder/decoder
  heap,                   \* object id -> event sequence object
  bs_num_steps,           \* _beam_search parameter num_steps (steps to add)
  event_sequences,        \* list of object ids (the population)
  inputs,                 \* list of model inputs, one per sequence
  final_state,            \* array of RNN state rows
  loglik,                 \* array of log-likelihoods
  first_iteration_num_steps,
  num_iterations,
  iteration,              \* loop index of `for _ in range(num_iterations)`
  pass_num_steps,         \* num_steps argument of the running _generate_branches
  step,                   \* loop index of `for _ in range(num_steps)`
  pc,                     \* program position
  result,                 \* <<>> or <<object id returned>>
  error,                  \* "none" or the exception raised
  calls,                  \* number of collaborator calls made so far
  ops,                    \* history: branch / prune operations in order
  fed,                    \* history: what the last _generate_step call was given
  pruned,                 \* history: input and selection of the last prune
  stepped,                \* history: the last _generate_step call, in and out
  branched                \* history: the beam the running branch pass was given

reqVars == <<num_steps, beam_size, branch_factor, steps_per_iteration, policy>>
popVars == <<event_sequences, inputs, final_state, loglik>>
loopVars == <<bs_num_steps, first_iteration_num_steps, num_iterations,
              iteration, pass_num_steps, step>>
vars == <<reqVars, heap, popVars, loopVars, pc, result, error, calls, ops,
          fed, pruned, stepped, branched>>

\* ------------------------------------------------------------- utilities
Min(a, b) == IF a <= b THEN a ELSE b

Range(s) == {s[i] : i \in 1..Len(s)}

SeqsUpTo(S, n) == UNION {[1..m -> S] : m \in 0..n}

\* an event sequence object; hState, hLoglik and hSteps are history fields:
\* the state row and chosen probabilities the step function produced for
\* this object (copied along with it by deepcopy), and the number of steps
\* it was extended by
Obj(ev) == [events |-> ev, hState |-> <<>>, hLoglik |-> 0, hSteps |-> 0]

\* ---------------------------------------------------- the collaborators
\* session.run(graph_initial_state): the state of a network that has
\* consumed nothing
InitialState == <<>>

\* session.run([final_state, softmax]): the network consumes the input
StepState(state, input) == state \o input

\* the softmax value of event e after the network reached newstate, as the
\* exponent m of p = e^(-m).  It depends on the whole history through its
\* length and on the event consumed last: after an odd number of events
\* the network expects a change of event, after an even number a repeat.
SoftmaxExp(newstate, e) ==
  LET repeat == Len(newstate) > 0 /\ e = newstate[Len(newstate)]
  IN IF (Len(newstate) % 2 = 1) = repeat THEN 2 ELSE 1

\* the most probable event
GreedyEvent(newstate) ==
  CHOOSE e \in Events : \A f \in Events :
    SoftmaxExp(newstate, e) <= SoftmaxExp(newstate, f)

\* the events extend_event_sequences may pick for one sequence
ExtendChoices(pol, newstate) ==
  IF pol = "greedy" THEN {GreedyEvent(newstate)} ELSE Events

\* encoder_decoder.get_inputs_batch for one sequence: the whole sequence
\* when full_length, else its last event
GetInputs(ev, full_length) ==
  IF full_length THEN ev ELSE <<ev[Len(ev)]>>

GetInputsBatch(h, seqs, full_length) ==
  [i \in 1..Len(seqs) |-> GetInputs(h[seqs[i]].events, full_length)]

\* the sign of the logarithm lost
Log_Positive(m) == m

\* np.log of a probability e^(-m)
Log(m) == 0 - m


\* ------------------------------------------------------------- the heap
MaxId(h) == CHOOSE m \in DOMAIN h : \A o \in DOMAIN h : o <= m

\* objects referred to by no list are gone; the caller keeps the primer
Collect(h, seqs) ==
  [o \in DOMAIN h \cap (Range(seqs) \cup {primer_events}) |-> h[o]]

\* the list of the same objects, not of copies
DeepCopyList_Alias(h, src) == [heap |-> h, ids |-> src]

\* [copy.deepcopy(events) for events in src]: one new object per entry
DeepCopyList(h, src) ==
  LET base == MaxId(h)
      ids == [i \in 1..Len(src) |-> base + i]
  IN [heap |-> [o \in DOMAIN h \cup Range(ids) |->
                  IF o \in DOMAIN h THEN h[o] ELSE h[src[o - base]]],
      ids |-> ids]

\* Python `lst * n`: n concatenated copies of the list
ListRepeat(lst, n) ==
  IF Len(lst) = 0 \/ n <= 0 THEN <<>>
  ELSE [j \in 1..(Len(lst) * n) |-> lst[((j - 1) % Len(lst)) + 1]]

\* np.tile(a, (n, 1)) and np.tile(a, (n,)): the rows of a, n times over
NpTile(a, n) ==
  IF Len(a) = 0 \/ n <= 0 THEN <<>>
  ELSE [j \in 1..(Len(a) * n) |-> a[((j - 1) % Len(a)) + 1]]

\* --------------------------------------------------------- _generate_step
\* extend_event_sequences(event_sequences, softmax): appends the chosen
\* event to each object of the batch, in place and in list order; rows[j]
\* is what the step function produced for the j-th entry of the batch
RECURSIVE ExtendEventSequences(_, _, _)
ExtendEventSequences(h, objs, rows) ==
  IF Len(objs) = 0 THEN h
  ELSE LET o == Head(objs)
           r == Head(rows)
           h1 == [h EXCEPT ![o] =
                    [events |-> Append(@.events, r.event),
                     hState |-> r.state,
                     hLoglik |-> @.hLoglik + Log(r.softmax),
                     hSteps |-> @.hSteps + 1]]
       IN ExtendEventSequences(h1, Tail(objs), Tail(rows))

\* the step function fed the initial state of the network instead of the
\* state rows of the batch
GenerateStepForBatch_DropsState(h, seqs_b, inputs_b, state_b, choice_b) ==
  LET n == Len(seqs_b)
      batch_final_state == [j \in 1..n |-> StepState(InitialState, inputs_b[j])]
      batch_softmax == [j \in 1..n |->
                          SoftmaxExp(batch_final_state[j], choice_b[j])]
      rows == [j \in 1..n |-> [event |-> choice_b[j],
                               state |-> batch_final_state[j],
                               softmax |-> batch_softmax[j]]]
  IN [heap |-> ExtendEventSequences(h, seqs_b, rows),
      final_state |-> batch_final_state,
      softmax |-> batch_softmax]

\* _generate_step_for_batch: one step-function call on a batch, then the
\* encoder/decoder extends the batch's sequences; choice[j] is the event it
\* picks for the j-th entry.  Returns the heap, the batch's final state
\* rows and the chosen softmax values.
GenerateStepForBatch(h, seqs_b, inputs_b, state_b, choice_b) ==
  LET n == Len(seqs_b)
      batch_final_state == [j \in 1..n |-> StepState(state_b[j], inputs_b[j])]
      batch_softmax == [j \in 1..n |->
                          SoftmaxExp(batch_final_state[j], choice_b[j])]
      rows == [j \in 1..n |-> [event |-> choice_b[j],
                               state |-> batch_final_state[j],
                               softmax |-> batch_softmax[j]]]
  IN [heap |-> ExtendEventSequences(h, seqs_b, rows),
      final_state |-> batch_final_state,
      softmax |-> batch_softmax]

\* np.empty: rows no batch has written
EmptyState == <<"uninitialized">>
EmptySoftmax == 0 - 1

\* the indices of the b-th full batch (b = 1, 2, ...), as positions of seqs
BatchIndices(b, bsz) == [j \in 1..bsz |-> (b - 1) * bsz + j]

\* the first rows of the state array taken for every batch
BatchResult_FirstRows(hb, b, bsz, seqs, inps, st, choice) ==
  LET batch_indices == BatchIndices(b, bsz)
  IN GenerateStepForBatch(
       hb,
       [j \in 1..bsz |-> seqs[batch_indices[j]]],
       [j \in 1..bsz |-> inps[batch_indices[j]]],
       [j \in 1..bsz |-> st[j]],
       [j \in 1..bsz |-> choice[batch_indices[j]]])

\* the _generate_step_for_batch call for the b-th full batch, made with
\* heap hb
BatchResult(hb, b, bsz, seqs, inps, st, choice) ==
  LET batch_indices == BatchIndices(b, bsz)
  IN GenerateStepForBatch(
       hb,
       [j \in 1..bsz |-> seqs[batch_indices[j]]],
       [j \in 1..bsz |-> inps[batch_indices[j]]],
       [j \in 1..bsz |-> st[batch_indices[j]]],
       [j \in 1..bsz |-> choice[batch_indices[j]]])

\* the heap the first b full batches of _generate_step leave behind: the
\* batches run in index order, each on the heap the one before it left
RECURSIVE HeapAfterBatch(_, _, _, _, _, _, _)
HeapAfterBatch(h, b, bsz, seqs, inps, st, choice) ==
  IF b <= 0 THEN h
  ELSE BatchResult(HeapAfterBatch(h, b - 1, bsz, seqs, inps, st, choice),
                   b, bsz, seqs, inps, st, choice).heap

\* the arguments the padding branch of _generate_step builds for its
\* _generate_step_for_batch call, evaluated left to right, for the
\* num_extra candidates after offset:
\*   - the sequences: the real ones, then pad_size deep copies of the last;
\*   - the inputs: the real ones, then `inputs[-1] * pad_size`, the
\*     entries of the last model input repeated (not pad_size copies of
\*     the input);
\*   - the state rows: `np.tile(inputs[-1, :], ...)` subscripts the Python
\*     list inputs with a tuple, which raises TypeError.
\* The exception leaves the evaluation, so the call is never made.
PadArguments(h, offset, bsz, seqs, inps, st) ==
  LET num_extra == Len(seqs) - offset
      pad_size == bsz - num_extra
      c == DeepCopyList(h, [j \in 1..pad_size |-> seqs[Len(seqs)]])
  IN [event_sequences |->
        [j \in 1..num_extra |-> seqs[offset + j]] \o c.ids,
      inputs |->
        [j \in 1..num_extra |-> inps[offset + j]]
          \o ListRepeat(inps[Len(inps)], pad_size),
      error |-> "TypeError"]

\* the padding branch taken for an empty remainder too
GenerateStepOp_PadsAlways(h, seqs, inps, st, choice, bsz) ==
  LET num_full_batches == Len(seqs) \div bsz
      offset == num_full_batches * bsz
      batch_of(i) == ((i - 1) \div bsz) + 1
      within(i) == ((i - 1) % bsz) + 1
  IN [heap |-> HeapAfterBatch(h, num_full_batches, bsz, seqs, inps, st,
                              choice),
      final_state |->
        [i \in 1..Len(seqs) |->
           IF i <= offset
           THEN BatchResult(h, batch_of(i), bsz, seqs, inps, st, choice)
                  .final_state[within(i)]
           ELSE EmptyState],
      softmax |->
        [i \in 1..Len(seqs) |->
           IF i <= offset
           THEN BatchResult(h, batch_of(i), bsz, seqs, inps, st, choice)
                  .softmax[within(i)]
           ELSE EmptySoftmax],
      batches |-> num_full_batches,
      padded |-> 0,
      pad_call |-> <<>>,
      error |-> IF offset <= Len(seqs) THEN "TypeError" ELSE "none"]

\* _generate_step: the full batches in index order, each writing its rows
\* of the outputs, then the padding branch for what is left over.  The
\* state rows and softmax values a batch returns do not depend on the
\* contents of the sequences, so they are read off the batch call made
\* with the heap h of the start.  batches and padded count the
\* _generate_step_for_batch calls of the full batches and of the padding
\* branch, pad_call lists the arguments of the latter (none is made: its
\* arguments raise); error is the exception that ends the call, after
\* which no output is returned.
GenerateStepOp(h, seqs, inps, st, choice, bsz) ==
  LET num_full_batches == Len(seqs) \div bsz
      offset == num_full_batches * bsz
      batch_of(i) == ((i - 1) \div bsz) + 1
      within(i) == ((i - 1) % bsz) + 1
  IN [heap |-> HeapAfterBatch(h, num_full_batches, bsz, seqs, inps, st,
                              choice),
      final_state |->
        [i \in 1..Len(seqs) |->
           IF i <= offset
           THEN BatchResult(h, batch_of(i), bsz, seqs, inps, st, choice)
                  .final_state[within(i)]
           ELSE EmptyState],
      softmax |->
        [i \in 1..Len(seqs) |->
           IF i <= offset
           THEN BatchResult(h, batch_of(i), bsz, seqs, inps, st, choice)
                  .softmax[within(i)]
           ELSE EmptySoftmax],
      batches |-> num_full_batches,
      padded |-> 0,
      pad_call |-> <<>>,
      error |-> IF offset < Len(seqs)
                THEN PadArguments(h, offset, bsz, seqs, inps, st).error
                ELSE "none"]

\* -------------------------------------------------------- _prune_branches
\* the k smallest in place of the k largest
NLargest_Smallest(k, n, key) ==
  LET before(i) == Cardinality({j \in 1..n :
                     key[j] < key[i] \/ (key[j] = key[i] /\ j < i)})
  IN [r \in 1..(IF k <= 0 THEN 0 ELSE Min(k, n)) |->
        CHOOSE i \in 1..n : before(i) = r - 1]

\* of equal keys the one met later sorted first
NLargest_TiesLast(k, n, key) ==
  LET before(i) == Cardinality({j \in 1..n :
                     key[j] > key[i] \/ (key[j] = key[i] /\ j > i)})
  IN [r \in 1..(IF k <= 0 THEN 0 ELSE Min(k, n)) |->
        CHOOSE i \in 1..n : before(i) = r - 1]

\* heapq.nlargest(k, range(n), key): the first k of range(n) sorted by
\* decreasing key, equal keys in increasing index order; before(i) is the
\* number of indices sorted before i
NLargest(k, n, key) ==
  LET before(i) == Cardinality({j \in 1..n :
                     key[j] > key[i] \/ (key[j] = key[i] /\ j < i)})
  IN [r \in 1..(IF k <= 0 THEN 0 ELSE Min(k, n)) |->
        CHOOSE i \in 1..n : before(i) = r - 1]

\* one candidate too many kept
PruneBranches_OffByOne(seqs, st, ll, k) ==
  LET indices == NLargest(k + 1, Len(seqs), ll)
  IN [event_sequences |-> [j \in 1..Len(indices) |-> seqs[indices[j]]],
      final_state |-> [j \in 1..Len(indices) |-> st[indices[j]]],
      loglik |-> [j \in 1..Len(indices) |-> ll[indices[j]]],
      indices |-> indices]

\* the first rows of the state array kept, not the selected ones
PruneBranches_StatePrefix(seqs, st, ll, k) ==
  LET indices == NLargest(k, Len(seqs), ll)
  IN [event_sequences |-> [j \in 1..Len(indices) |-> seqs[indices[j]]],
      final_state |-> [j \in 1..Len(indices) |-> st[j]],
      loglik |-> [j \in 1..Len(indices) |-> ll[indices[j]]],
      indices |-> indices]

PruneBranches(seqs, st, ll, k) ==
  LET indices == NLargest(k, Len(seqs), ll)
  IN [event_sequences |-> [j \in 1..Len(indices) |-> seqs[indices[j]]],
      final_state |-> [j \in 1..Len(indices) |-> st[indices[j]]],
      loglik |-> [j \in 1..Len(indices) |-> ll[indices[j]]],
      indices |-> indices]

\* ----------------------------------------------------------- _beam_search
\* the + 1 forgotten
FirstIterationNumSteps_NoPlusOne(n, spi) == (n - 1) % spi

FirstIterationNumSteps(n, spi) == ((n - 1) % spi) + 1

\* the steps of the first iteration not subtracted
NumIterations_IgnoreFirst(n, first, spi) == n \div spi

NumIterations(n, first, spi) == (n - first) \div spi


\* ---------------------------------------------------------------- states
NoFed == [t |-> 0 - 1, priming |-> TRUE, inputs |-> <<>>, seen |-> <<>>]
NoPrune == [k |-> 0, event_sequences |-> <<>>, final_state |-> <<>>,
            loglik |-> <<>>, indices |-> <<>>]
NoCalls == [step |-> 0, enc |-> 0, init |-> 0]
NoStep == [bsz |-> 0, heap |-> <<>>, event_sequences |-> <<>>,
           inputs |-> <<>>, initial_state |-> <<>>, choice |-> <<>>,
           final_state |-> <<>>, softmax |-> <<>>, batches |-> 0,
           padded |-> 0, pad_call |-> <<>>, error |-> "none"]
NoBranch == [events |-> <<>>, final_state |-> <<>>, loglik |-> <<>>,
             hLoglik |-> <<>>]

\* a caller holds a primer and is about to call _generate_events
Init ==
  /\ num_steps \in (0 - 1)..MaxNumSteps
  /\ beam_size \in 1..MaxBeamSize
  /\ branch_factor \in 1..MaxBranchFactor
  /\ steps_per_iteration \in 1..MaxStepsPerIteration
  /\ policy \in Policies
  /\ \E p \in SeqsUpTo(Events, MaxPrimerLen) :
       /\ heap = [o \in {primer_events} |-> Obj(p)]
       /\ policy = "sample" =>
            beam_size * branch_factor * (num_steps - Len(p))
              <= MaxSampledEvents
  /\ bs_num_steps = 0
  /\ event_sequences = <<>>
  /\ inputs = <<>>
  /\ final_state = <<>>
  /\ loglik = <<>>
  /\ first_iteration_num_steps = 0
  /\ num_iterations = 0
  /\ iteration = 0
  /\ pass_num_steps = 0
  /\ step = 0
  /\ pc = "call"
  /\ result = <<>>
  /\ error = "none"
  /\ calls = NoCalls
  /\ ops = <<>>
  /\ fed = NoFed
  /\ pruned = NoPrune
  /\ stepped = NoStep
  /\ branched = NoBranch

\* the two checks of _generate_events, in their order: the message of the
\* exception raised, or "none"
Validate_LengthFirst(primer_len, n) ==
  IF primer_len >= n THEN "primer sequence must be shorter than num_steps"
  ELSE IF primer_len = 0 THEN "primer sequence must have non-zero length"
  ELSE "none"

Validate(primer_len, n) ==
  IF primer_len = 0 THEN "primer sequence must have non-zero length"
  ELSE IF primer_len >= n
       THEN "primer sequence must be shorter than num_steps"
  ELSE "none"

\* _generate_events: the checks, then the call of _beam_search with the
\* number of steps still to generate
GenerateEvents_PassesTotal ==
  /\ pc = "call"
  /\ LET primer == heap[primer_events].events
         e == Validate(Len(primer), num_steps)
     IN /\ error' = e
        /\ pc' = IF e = "none" THEN "beam_search" ELSE "raised"
        /\ bs_num_steps' = IF e = "none" THEN num_steps ELSE bs_num_steps
  /\ UNCHANGED <<reqVars, heap, popVars, first_iteration_num_steps,
                 num_iterations, iteration, pass_num_steps, step, result,
                 calls, ops, fed, pruned, stepped, branched>>

GenerateEvents ==
  /\ pc = "call"
  /\ LET primer == heap[primer_events].events
         e == Validate(Len(primer), num_steps)
     IN /\ error' = e
        /\ pc' = IF e = "none" THEN "beam_search" ELSE "raised"
        /\ bs_num_steps' =
             IF e = "none" THEN num_steps - Len(primer) ELSE bs_num_steps
  /\ UNCHANGED <<reqVars, heap, popVars, first_iteration_num_steps,
                 num_iterations, iteration, pass_num_steps, step, result,
                 calls, ops, fed, pruned, stepped, branched>>

\* _beam_search up to its first _generate_branches call: the beam of
\* beam_size copies of the primer, the step counts of the iterations, the
\* full-length inputs and the tiled initial state.  num_iterations depends
\* on the arguments only and is computed here.
BeamSearchInit ==
  /\ pc = "beam_search"
  /\ LET c == DeepCopyList(heap, [i \in 1..beam_size |-> primer_events])
         first == FirstIterationNumSteps(bs_num_steps, steps_per_iteration)
     IN /\ heap' = c.heap
        /\ event_sequences' = c.ids
        /\ loglik' = [i \in 1..beam_size |-> 0]
        /\ first_iteration_num_steps' = first
        /\ inputs' = GetInputsBatch(c.heap, c.ids, TRUE)
        /\ final_state' = NpTile(<<InitialState>>, beam_size)
        /\ num_iterations' =
             NumIterations(bs_num_steps, first, steps_per_iteration)
        /\ pass_num_steps' = first
  /\ iteration' = 0
  /\ calls' = [calls EXCEPT !.enc = @ + 1, !.init = @ + 1]
  /\ pc' = "branch"
  /\ UNCHANGED <<reqVars, bs_num_steps, step, result, error, ops, fed, pruned,
                 stepped, branched>>

\* the log-likelihoods of the copies start at zero
GenerateBranches_ZeroLoglik ==
  /\ pc = "branch"
  /\ LET c == DeepCopyList(heap, ListRepeat(event_sequences, branch_factor))
     IN /\ heap' = Collect(c.heap, c.ids)
        /\ event_sequences' = c.ids
  /\ inputs' = ListRepeat(inputs, branch_factor)
  /\ final_state' = NpTile(final_state, branch_factor)
  /\ loglik' = [i \in 1..(Len(loglik) * branch_factor) |-> 0]
  /\ step' = 0
  /\ branched' = [events |-> [i \in 1..Len(event_sequences) |->
                                heap[event_sequences[i]].events],
                   final_state |-> final_state,
                   loglik |-> loglik,
                   hLoglik |-> [i \in 1..Len(event_sequences) |->
                                  heap[event_sequences[i]].hLoglik]]
  /\ ops' = Append(ops, <<"branch", pass_num_steps>>)
  /\ pc' = IF pass_num_steps > 0 THEN "step" ELSE "loop"
  /\ UNCHANGED <<reqVars, bs_num_steps, first_iteration_num_steps,
                 num_iterations, iteration, pass_num_steps, result, error,
                 calls, fed, pruned, stepped>>

\* _generate_branches before its loop: branch_factor copies of every
\* sequence, input, state row and log-likelihood
GenerateBranches ==
  /\ pc = "branch"
  /\ LET c == DeepCopyList(heap, ListRepeat(event_sequences, branch_factor))
     IN /\ heap' = Collect(c.heap, c.ids)
        /\ event_sequences' = c.ids
  /\ inputs' = ListRepeat(inputs, branch_factor)
  /\ final_state' = NpTile(final_state, branch_factor)
  /\ loglik' = NpTile(loglik, branch_factor)
  /\ step' = 0
  /\ branched' = [events |-> [i \in 1..Len(event_sequences) |->
                                heap[event_sequences[i]].events],
                   final_state |-> final_state,
                   loglik |-> loglik,
                   hLoglik |-> [i \in 1..Len(event_sequences) |->
                                  heap[event_sequences[i]].hLoglik]]
  /\ ops' = Append(ops, <<"branch", pass_num_steps>>)
  /\ pc' = IF pass_num_steps > 0 THEN "step" ELSE "loop"
  /\ UNCHANGED <<reqVars, bs_num_steps, first_iteration_num_steps,
                 num_iterations, iteration, pass_num_steps, result, error,
                 calls, fed, pruned, stepped>>

\* one iteration of the loop of _generate_branches: a _generate_step call
\* on the whole population with the inputs the pass was given, then the
\* logs of the chosen probabilities are added to the log-likelihoods
GenerateStep ==
  /\ pc = "step"
  /\ \E choice \in [1..Len(event_sequences) -> Events] :
       /\ \A i \in 1..Len(event_sequences) :
            choice[i] \in
              ExtendChoices(policy, StepState(final_state[i], inputs[i]))
       /\ \E r \in {GenerateStepOp(heap, event_sequences, inputs, final_state,
                                  choice, batch_size)} :
             /\ heap' = r.heap
             /\ calls' = [calls EXCEPT !.step = @ + r.batches + r.padded,
                                       !.enc = @ + r.batches + r.padded]
             /\ stepped' = [bsz |-> batch_size, heap |-> heap,
                            event_sequences |-> event_sequences,
                            inputs |-> inputs, initial_state |-> final_state,
                            choice |-> choice, final_state |-> r.final_state,
                            softmax |-> r.softmax, batches |-> r.batches,
                            padded |-> r.padded, pad_call |-> r.pad_call,
                            error |-> r.error]
             /\ error' = r.error
             /\ IF r.error = "none"
                THEN /\ final_state' = r.final_state
                     /\ loglik' = [i \in 1..Len(loglik) |->
                                     loglik[i] + Log(r.softmax[i])]
                     /\ step' = step + 1
                     /\ pc' = IF step + 1 < pass_num_steps
                              THEN "step" ELSE "loop"
                ELSE /\ pc' = "raised"
                     /\ UNCHANGED <<final_state, loglik, step>>
  /\ fed' = [t |-> step, priming |-> (iteration = 0), inputs |-> inputs,
             seen |-> [i \in 1..Len(event_sequences) |->
                         heap[event_sequences[i]].events]]
  /\ UNCHANGED <<reqVars, event_sequences, inputs, bs_num_steps,
                 first_iteration_num_steps, num_iterations, iteration,
                 pass_num_steps, result, ops, pruned, branched>>

\* one iteration of the loop of _beam_search up to its _generate_branches
\* call: prune to beam_size, then the inputs of the survivors
IterPrune ==
  /\ pc = "loop"
  /\ iteration < num_iterations
  /\ LET r == PruneBranches(event_sequences, final_state, loglik, beam_size)
     IN /\ event_sequences' = r.event_sequences
        /\ final_state' = r.final_state
        /\ loglik' = r.loglik
        /\ heap' = Collect(heap, r.event_sequences)
        /\ inputs' = GetInputsBatch(heap, r.event_sequences, FALSE)
        /\ pruned' = [k |-> beam_size, event_sequences |-> event_sequences,
                      final_state |-> final_state, loglik |-> loglik,
                      indices |-> r.indices]
  /\ iteration' = iteration + 1
  /\ pass_num_steps' = steps_per_iteration
  /\ calls' = [calls EXCEPT !.enc = @ + 1]
  /\ ops' = Append(ops, <<"prune", beam_size>>)
  /\ pc' = "branch"
  /\ UNCHANGED <<reqVars, bs_num_steps, first_iteration_num_steps,
                 num_iterations, step, result, error, fed, stepped, branched>>

\* after the loop: prune to a single sequence, which _beam_search and
\* _generate_events return
FinalPrune ==
  /\ pc = "loop"
  /\ iteration >= num_iterations
  /\ LET r == PruneBranches(event_sequences, final_state, loglik, 1)
     IN /\ event_sequences' = r.event_sequences
        /\ final_state' = r.final_state
        /\ loglik' = r.loglik
        /\ heap' = Collect(heap, r.event_sequences)
        /\ result' = <<r.event_sequences[1]>>
        /\ pruned' = [k |-> 1, event_sequences |-> event_sequences,
                      final_state |-> final_state, loglik |-> loglik,
                      indices |-> r.indices]
  /\ ops' = Append(ops, <<"prune", 1>>)
  /\ pc' = "done"
  /\ UNCHANGED <<reqVars, inputs, loopVars, error, calls, fed, stepped,
                 branched>>

Next ==
  \/ GenerateEvents
  \/ BeamSearchInit
  \/ GenerateBranches
  \/ GenerateStep
  \/ IterPrune
  \/ FinalPrune

Spec == Init /\ [][Next]_vars


\* the program runs to completion: no step of it waits for anything
InitFair ==
  /\ Init
  /\ beam_size * branch_factor * (num_steps - Len(heap[primer_events].events))
       <= (IF policy = "sample" THEN MaxFairSampledEvents
           ELSE MaxFairGreedyEvents)

FairSpec == InitFair /\ [][Next]_vars /\ WF_vars(Next)

\* ------------------------------------------- _prune_branches on its own
\* any population of up to MaxPopulation candidates with any
\* log-likelihoods; candidate i is object i with state row of i events
InitPrune ==
  /\ num_steps = 0
  /\ beam_size = 1
  /\ branch_factor = 1
  /\ steps_per_iteration = 1
  /\ policy = "sample"
  /\ \E M \in 0..MaxPopulation :
       \E ll \in [1..M -> (1 - NumLoglikLevels)..0] :
         /\ loglik = ll
         /\ event_sequences = [i \in 1..M |-> i]
         /\ final_state = [i \in 1..M |-> [j \in 1..i |-> "A"]]
         /\ heap = [o \in 0..M |->
                      IF o = primer_events THEN Obj(<<>>)
                      ELSE [events |-> <<>>,
                            hState |-> [j \in 1..o |-> "A"],
                            hLoglik |-> ll[o], hSteps |-> 0]]
  /\ inputs = <<>>
  /\ bs_num_steps = 0
  /\ first_iteration_num_steps = 0
  /\ num_iterations = 0
  /\ iteration = 0
  /\ pass_num_steps = 0
  /\ step = 0
  /\ pc = "prune"
  /\ result = <<>>
  /\ error = "none"
  /\ calls = NoCalls
  /\ ops = <<>>
  /\ fed = NoFed
  /\ pruned = NoPrune
  /\ stepped = NoStep
  /\ branched = NoBranch

\* a call of _prune_branches with any k
UnitPrune ==
  /\ pc = "prune"
  /\ \E k \in 0..MaxK :
       LET r == PruneBranches(event_sequences, final_state, loglik, k)
       IN /\ event_sequences' = r.event_sequences
          /\ final_state' = r.final_state
          /\ loglik' = r.loglik
          /\ heap' = Collect(heap, r.event_sequences)
          /\ pruned' = [k |-> k, event_sequences |-> event_sequences,
                        final_state |-> final_state, loglik |-> loglik,
                        indices |-> r.indices]
  /\ pc' = "pruned"
  /\ UNCHANGED <<reqVars, inputs, loopVars, result, error, calls, ops, fed,
                 stepped, branched>>

NextPrune == UnitPrune

SpecPrune == InitPrune /\ [][NextPrune]_vars

\* -------------------------------------------- _generate_step on its own
\* any N <= MaxCandidates candidates, each its own object holding one
\* event, with its last event as model input and any state row, and any
\* batch size up to MaxBatchSize (kept in stepped.bsz)
InitStep ==
  /\ num_steps = 0
  /\ beam_size = 1
  /\ branch_factor = 1
  /\ steps_per_iteration = 1
  /\ policy = "sample"
  /\ \E N \in 0..MaxCandidates :
       \E ev \in [1..N -> Events] :
         \E st \in [1..N -> SeqsUpTo({"A"}, 1)] :
           /\ event_sequences = [i \in 1..N |-> i]
           /\ heap = [o \in 0..N |->
                        IF o = primer_events THEN Obj(<<>>)
                        ELSE Obj(<<ev[o]>>)]
           /\ inputs = [i \in 1..N |-> GetInputs(<<ev[i]>>, FALSE)]
           /\ final_state = st
           /\ loglik = [i \in 1..N |-> 0]
  /\ \E b \in 1..MaxBatchSize : stepped = [NoStep EXCEPT !.bsz = b]
  /\ bs_num_steps = 0
  /\ first_iteration_num_steps = 0
  /\ num_iterations = 0
  /\ iteration = 0
  /\ pass_num_steps = 0
  /\ step = 0
  /\ pc = "generate_step"
  /\ result = <<>>
  /\ error = "none"
  /\ calls = NoCalls
  /\ ops = <<>>
  /\ fed = NoFed
  /\ pruned = NoPrune
  /\ branched = NoBranch

\* a call of _generate_step with the batch size stepped.bsz; the
\* encoder/decoder picks any event for each candidate
UnitStep ==
  /\ pc = "generate_step"
  /\ \E choice \in [1..Len(event_sequences) -> Events] :
       \E r \in {GenerateStepOp(heap, event_sequences, inputs, final_state,
                               choice, stepped.bsz)} :
          /\ heap' = r.heap
          /\ calls' = [calls EXCEPT !.step = @ + r.batches + r.padded,
                                    !.enc = @ + r.batches + r.padded]
          /\ stepped' = [bsz |-> stepped.bsz, heap |-> heap,
                         event_sequences |-> event_sequences,
                         inputs |-> inputs, initial_state |-> final_state,
                         choice |-> choice, final_state |-> r.final_state,
                         softmax |-> r.softmax, batches |-> r.batches,
                         padded |-> r.padded, pad_call |-> r.pad_call,
                            error |-> r.error]
          /\ error' = r.error
          /\ IF r.error = "none"
             THEN /\ final_state' = r.final_state
                  /\ pc' = "stepped"
             ELSE /\ pc' = "raised"
                  /\ UNCHANGED final_state
  /\ UNCHANGED <<reqVars, event_sequences, inputs, loglik, loopVars, result,
                 ops, fed, pruned, branched>>

NextStep == UnitStep

SpecStep == InitStep /\ [][NextStep]_vars

\* ---------------------------------------------------------------- claims
\* the positions inside _beam_search, and those with a population
InSearch == pc \in {"branch", "step", "loop", "done"}

Primer == heap[primer_events].events

\* C1: a request _generate_events accepts (1 <= len(primer) < num_steps)
\* returns a sequence of exactly num_steps events whose first len(primer)
\* events are the primer.
ResultLengthAndPrefix ==
  pc = "done" =>
    /\ Len(result) = 1
    /\ Len(Primer) = num_steps - bs_num_steps
    /\ Len(heap[result[1]].events) = num_steps
    /\ SubSeq(heap[result[1]].events, 1, Len(Primer)) = Primer

\* a sampled generation over several iterations, with a first iteration
\* shorter than the others, has returned
ResultLengthWitness ==
  /\ pc = "done"
  /\ policy = "sample"
  /\ beam_size = 2
  /\ steps_per_iteration = 2
  /\ bs_num_steps = 3
  /\ Len(Primer) = 1

\* C2: an empty primer raises the non-zero-length error, whatever the
\* target length; otherwise a primer not shorter than the target raises
\* the shorter-than error; a raise comes before any collaborator call and
\* returns no sequence.
ValidationOrder ==
  pc # "call" =>
    /\ Len(Primer) = 0 =>
         /\ pc = "raised"
         /\ error = "primer sequence must have non-zero length"
    /\ (Len(Primer) > 0 /\ Len(Primer) >= num_steps) =>
         /\ pc = "raised"
         /\ error = "primer sequence must be shorter than num_steps"
    /\ pc = "raised" =>
         /\ calls = NoCalls
         /\ result = <<>>
         /\ event_sequences = <<>>
         /\ error # "none"

\* an empty primer with a target length of 0 or less was rejected
ValidationOrderWitness ==
  /\ pc = "raised"
  /\ Len(Primer) = 0
  /\ num_steps <= 0

\* C3: in _beam_search the population has beam_size * branch_factor
\* candidates from every _generate_branches pass (the priming pass too) to
\* the next prune, beam_size candidates after every prune of the loop, and
\* one after the final prune.
PopulationSize ==
  /\ pc \in {"step", "loop"} =>
       Len(event_sequences) = beam_size * branch_factor
  /\ pc = "branch" => Len(event_sequences) = beam_size
  /\ pc = "done" => Len(event_sequences) = 1

\* inside the loop a sampled population of 1 * 2 was pruned to 1, its
\* second candidate
PopulationSizeWitness ==
  /\ pc = "branch"
  /\ iteration = 1
  /\ policy = "sample"
  /\ beam_size = 1
  /\ branch_factor = 2
  /\ Len(pruned.loglik) = 2
  /\ pruned.indices = <<2>>

\* C4: with first = ((n - 1) mod spi) + 1 for the n >= 1 steps to add:
\* 1 <= first <= spi, n - first is a multiple of spi, first +
\* num_iterations * spi = n, and when the loop has finished every
\* candidate has been advanced exactly n steps.
StepArithmetic ==
  InSearch =>
    /\ bs_num_steps >= 1
    /\ first_iteration_num_steps =
         ((bs_num_steps - 1) % steps_per_iteration) + 1
    /\ 1 <= first_iteration_num_steps
    /\ first_iteration_num_steps <= steps_per_iteration
    /\ (bs_num_steps - first_iteration_num_steps) % steps_per_iteration = 0
    /\ first_iteration_num_steps + num_iterations * steps_per_iteration
         = bs_num_steps
    /\ ((pc = "loop" /\ iteration >= num_iterations) \/ pc = "done") =>
         \A i \in 1..Len(event_sequences) :
           heap[event_sequences[i]].hSteps = bs_num_steps

\* a search for a number of steps that is no multiple of
\* steps_per_iteration has finished
StepArithmeticWitness ==
  /\ pc = "done"
  /\ steps_per_iteration = 2
  /\ bs_num_steps = 5
  /\ first_iteration_num_steps = 1
  /\ num_iterations = 2

\* the operations of a whole _beam_search call, in order
RECURSIVE PrunePairs(_, _, _)
PrunePairs(n, beam, spi) ==
  IF n <= 0 THEN <<>>
  ELSE <<<<"prune", beam>>, <<"branch", spi>>>> \o PrunePairs(n - 1, beam, spi)

ExpectedOps ==
  LET first == ((bs_num_steps - 1) % steps_per_iteration) + 1
      pairs == (bs_num_steps - first) \div steps_per_iteration
  IN <<<<"branch", first>>>>
       \o PrunePairs(pairs, beam_size, steps_per_iteration)
       \o <<<<"prune", 1>>>>

IsPrefix(a, b) == Len(a) <= Len(b) /\ SubSeq(b, 1, Len(a)) = a

OpsInOrder ==
  /\ pc = "beam_search" => ops = <<>>
  /\ InSearch =>
       /\ IsPrefix(ops, ExpectedOps)
       /\ pc = "branch" => ops # ExpectedOps
       /\ pc = "done" =>
            /\ ops = ExpectedOps
            /\ Len(event_sequences) = 1
            /\ result = <<event_sequences[1]>>

\* C5: every _beam_search call terminates, and its operations are: the
\* priming branch pass, then (n - first) / spi times a prune to beam_size
\* and a branch pass of spi steps, then the prune to 1 whose one survivor
\* is returned.
SearchOrderAndTermination ==
  /\ []OpsInOrder
  /\ (pc = "beam_search") ~> (pc = "done")

\* 10 steps by 2: the priming pass, 4 prune/branch pairs, the final prune
SearchOrderWitness ==
  /\ pc = "done"
  /\ bs_num_steps = 10
  /\ steps_per_iteration = 2
  /\ Len(ops) = 10
  /\ iteration = 4


\* C6: _prune_branches on M candidates with any k >= 0 returns min(k, M)
\* candidates from distinct input indices, every returned log-likelihood
\* is >= every one not returned, and for k = 1 the returned candidate has
\* the largest log-likelihood of all.
PruneSelectsLargest ==
  LET M == Len(pruned.loglik)
      idx == pruned.indices
      ll == pruned.loglik
      returned == pc \in {"pruned", "done"} \/ (pc = "branch" /\ iteration >= 1)
  IN /\ Len(idx) = Min(pruned.k, M)
     /\ \A a \in 1..Len(idx) : idx[a] \in 1..M
     /\ \A a, b \in 1..Len(idx) : a # b => idx[a] # idx[b]
     /\ \A a \in 1..Len(idx) : \A i \in (1..M) \ Range(idx) :
          ll[idx[a]] >= ll[i]
     /\ (pruned.k = 1 /\ M >= 1) => \A i \in 1..M : ll[idx[1]] >= ll[i]
     /\ returned =>
          /\ event_sequences =
               [a \in 1..Len(idx) |-> pruned.event_sequences[idx[a]]]
          /\ loglik = [a \in 1..Len(idx) |-> ll[idx[a]]]
          /\ Len(event_sequences) = Min(pruned.k, M)
          /\ \A a \in 1..Len(idx) : \A i \in (1..M) \ Range(idx) :
               loglik[a] >= ll[i]

\* two of three candidates were kept, and what was dropped was neither
\* the last one nor tied with what was kept
PruneSelectsLargestWitness ==
  /\ pc = "pruned"
  /\ pruned.k = 2
  /\ Len(pruned.loglik) = 3
  /\ 3 \in Range(pruned.indices)
  /\ \E i \in 1..3 : i \notin Range(pruned.indices) /\
       \A a \in 1..2 : pruned.loglik[pruned.indices[a]] > pruned.loglik[i]

\* C7: in _beam_search the sequence list, the state array and the
\* log-likelihood array have the same length, and state row i and
\* log-likelihood i are the ones the step function produced for the
\* lineage of sequence i.
IndexAligned ==
  InSearch =>
    /\ Len(final_state) = Len(event_sequences)
    /\ Len(loglik) = Len(event_sequences)
    /\ \A i \in 1..Len(event_sequences) :
         /\ final_state[i] = heap[event_sequences[i]].hState
         /\ loglik[i] = heap[event_sequences[i]].hLoglik

\* after a branch pass over two parents with different states, the final
\* prune picked a candidate that was not the first, out of candidates with
\* other states and other log-likelihoods
IndexAlignedWitness ==
  /\ pc = "done"
  /\ policy = "sample"
  /\ beam_size = 2
  /\ Len(pruned.loglik) >= 2
  /\ pruned.indices[1] > 1
  /\ \E i \in 1..Len(pruned.loglik) :
       /\ pruned.final_state[i] # final_state[1]
       /\ pruned.loglik[i] # loglik[1]

\* C8: no two candidates of the population are the same event sequence
\* object (with the constructor's batch size of 1 no step pads a batch, so
\* there are no fillers).
NoSharedSequence ==
  InSearch =>
    \A i, j \in 1..Len(event_sequences) :
      i # j => event_sequences[i] # event_sequences[j]

\* two copies of one parent were extended by different events
NoSharedSequenceWitness ==
  /\ pc = "loop"
  /\ beam_size = 1
  /\ branch_factor = 2
  /\ Len(event_sequences) = 2
  /\ heap[event_sequences[1]].events # heap[event_sequences[2]].events
  /\ Len(heap[event_sequences[1]].events) = Len(heap[event_sequences[2]].events)

\* what the greedy policy produces from a sequence in n steps: each time
\* the most probable event after the network has consumed the sequence
RECURSIVE GreedyRollout(_, _)
GreedyRollout(ev, n) ==
  IF n <= 0 THEN ev
  ELSE GreedyRollout(Append(ev, GreedyEvent(ev)), n - 1)

\* C9: under the greedy policy all candidates of the population hold the
\* same sequence, no accepted request raises, and with
\* steps_per_iteration = 1 (as for primer [A], target 5, beam_size 2,
\* branch_factor 2) the result is the primer followed by the events the
\* greedy policy produces.
GreedyResult ==
  (policy = "greedy" /\ InSearch) =>
    /\ error = "none"
    /\ \A i, j \in 1..Len(event_sequences) :
         heap[event_sequences[i]].events = heap[event_sequences[j]].events
    /\ (pc = "done" /\ steps_per_iteration = 1) =>
         heap[result[1]].events = GreedyRollout(Primer, bs_num_steps)

\* the scenario: primer [A], target 5, beam 2, branch 2, one step per
\* iteration
GreedyResultWitness ==
  /\ pc = "done"
  /\ policy = "greedy"
  /\ Primer = <<"A">>
  /\ num_steps = 5
  /\ beam_size = 2
  /\ branch_factor = 2
  /\ steps_per_iteration = 1
  /\ heap[result[1]].events = <<"A", "B", "B", "A", "A">>

\* C10: in a _generate_branches pass other than the priming pass, the
\* inputs given to the step function at step t > 0 are those of the
\* sequences as extended at step t - 1.
InputsRecomputed ==
  (fed.t > 0 /\ ~fed.priming) =>
    \A i \in 1..Len(fed.inputs) :
      fed.inputs[i] = GetInputs(fed.seen[i], FALSE)

\* the last _generate_step call, checked on its own or inside a search
StepCalled == stepped.bsz > 0 /\ pc \in {"stepped", "raised"}
StepN == Len(stepped.event_sequences)
StepOffset == (StepN \div stepped.bsz) * stepped.bsz

\* C11: when the number N of candidates is no multiple of the batch size,
\* _generate_step makes a step-function call on a final chunk of exactly
\* batch_size entries whose fillers hold the last real candidate's
\* sequence, model input and state row initial_state[N-1].
PaddingCopiesLastCandidate ==
  (StepCalled /\ StepN % stepped.bsz # 0) =>
    /\ stepped.error = "none"
    /\ Len(stepped.pad_call) = 1
    /\ LET c == stepped.pad_call[1]
           r == StepN - StepOffset
       IN /\ Len(c.event_sequences) = stepped.bsz
          /\ Len(c.inputs) = stepped.bsz
          /\ Len(c.initial_state) = stepped.bsz
          /\ \A j \in (r + 1)..stepped.bsz :
               /\ stepped.heap[c.event_sequences[j]].events =
                    stepped.heap[stepped.event_sequences[StepN]].events
               /\ c.inputs[j] = stepped.inputs[StepN]
               /\ c.initial_state[j] = stepped.initial_state[StepN]

\* C12: for a remainder chunk of r candidates (0 < r < batch_size, as
\* r = 1 with batch_size 4) _generate_step makes exactly one step-function
\* call on top of those of the full batches, keeps its first r results as
\* the outputs of the r real candidates, and every real candidate of the
\* chunk, the last one too, is extended exactly once.
RemainderChunkOneCall ==
  (StepCalled /\ StepN % stepped.bsz # 0) =>
    /\ stepped.error = "none"
    /\ stepped.padded = 1
    /\ calls.step = stepped.batches + 1
    /\ \A i \in (StepOffset + 1)..StepN :
         /\ heap[stepped.event_sequences[i]].hSteps = 1
         /\ stepped.final_state[i] =
              StepState(stepped.initial_state[i], stepped.inputs[i])
         /\ stepped.softmax[i] =
              SoftmaxExp(stepped.final_state[i], stepped.choice[i])

\* C13: for every N and every batch size >= 1, one _generate_step call
\* extends each of the N sequences by exactly one event, and output row i
\* holds the state and the chosen probability the step function computes
\* from input i and state row i.
EveryCandidateOneStep ==
  StepCalled =>
    /\ stepped.error = "none"
    /\ Len(stepped.final_state) = StepN
    /\ Len(stepped.softmax) = StepN
    /\ \A i \in 1..StepN :
         LET before == stepped.heap[stepped.event_sequences[i]]
             after == heap[stepped.event_sequences[i]]
         IN /\ after.events = Append(before.events, stepped.choice[i])
            /\ after.hSteps = before.hSteps + 1
            /\ stepped.final_state[i] =
                 StepState(stepped.initial_state[i], stepped.inputs[i])
            /\ stepped.softmax[i] =
                 SoftmaxExp(stepped.final_state[i], stepped.choice[i])
            /\ after.hState = stepped.final_state[i]

\* C14: _generate_branches on M candidates returns M * branch_factor
\* candidates; the one at index j*M + i starts as a copy of input
\* candidate i (sequence, state row, log-likelihood), is advanced by
\* exactly num_steps events, and its log-likelihood is that of input
\* candidate i plus the logs of the probabilities chosen for it.
BranchesCopyAndAdvance ==
  pc \in {"step", "loop"} =>
    LET M == Len(branched.events)
    IN /\ Len(event_sequences) = M * branch_factor
       /\ Len(final_state) = M * branch_factor
       /\ Len(loglik) = M * branch_factor
       /\ pc = "loop" => step = pass_num_steps
       /\ \A j \in 0..(branch_factor - 1) : \A i \in 1..M :
            LET c == j * M + i
                obj == heap[event_sequences[c]]
            IN /\ IsPrefix(branched.events[i], obj.events)
               /\ Len(obj.events) = Len(branched.events[i]) + step
               /\ loglik[c] = branched.loglik[i]
                                + (obj.hLoglik - branched.hLoglik[i])
               /\ step = 0 => /\ obj.events = branched.events[i]
                              /\ final_state[c] = branched.final_state[i]

\* a pass of two steps over a survivor with a log-likelihood below zero
\* has ended with two copies that were extended differently
BranchesCopyAndAdvanceWitness ==
  /\ pc = "loop"
  /\ iteration = 1
  /\ branch_factor = 2
  /\ pass_num_steps = 2
  /\ step = 2
  /\ Len(branched.loglik) = 1
  /\ branched.loglik[1] < 0
  /\ heap[event_sequences[1]].events # heap[event_sequences[2]].events

\* C15: with every chosen probability in (0, 1], no _generate_step call
\* raises a candidate's cumulative log-likelihood, every log-likelihood
\* is <= 0 at all times, and the log-likelihood the search ends with is
\* the sum of the logs of the probabilities chosen over the num_steps
\* steps of the surviving lineage.
LoglikNeverIncreases ==
  /\ [](InSearch => \A i \in 1..Len(loglik) : loglik[i] <= 0)
  /\ [][(pc = "step" /\ pc' \in {"step", "loop"}) =>
         /\ Len(loglik') = Len(loglik)
         /\ \A i \in 1..Len(loglik) : loglik'[i] <= loglik[i]]_vars
  /\ [](pc = "done" =>
         /\ loglik[1] = heap[result[1]].hLoglik
         /\ heap[result[1]].hSteps = bs_num_steps)

\* a sampled search of three steps has ended on a lineage for which an
\* event other than the most probable one was chosen at least once
LoglikNeverIncreasesWitness ==
  /\ pc = "done"
  /\ policy = "sample"
  /\ bs_num_steps = 3
  /\ loglik[1] < 0 - bs_num_steps
  /\ Len(pruned.loglik) = 2
  /\ pruned.loglik[1] # pruned.loglik[2]

\* the outputs and the sequences a _generate_step call with batch size b
\* leaves when started from the state the last call was started from
StepRerun(b, seqs, inps, st, choice) ==
  GenerateStepOp(stepped.heap, seqs, inps, st, choice, b)

\* C16: with a step function that computes each row from that row's
\* input and state only, _generate_step on N candidates (N a multiple of
\* the batch size) gives each candidate the same sequence, state row and
\* probability as with any other batch size that divides N, and as two
\* separate calls on a leading and a trailing sub-list.
BatchSizeIndependent ==
  (pc = "stepped" /\ stepped.bsz > 0) =>
    /\ \A b \in 1..MaxBatchSize :
         StepN % b = 0 =>
           \A r \in {StepRerun(b, stepped.event_sequences, stepped.inputs,
                                stepped.initial_state, stepped.choice)} :
             /\ r.error = "none"
             /\ r.final_state = stepped.final_state
             /\ r.softmax = stepped.softmax
             /\ r.heap = heap
    /\ \A k \in 0..StepN :
         \A lead \in {StepRerun(1, SubSeq(stepped.event_sequences, 1, k),
                                 SubSeq(stepped.inputs, 1, k),
                                 SubSeq(stepped.initial_state, 1, k),
                                 SubSeq(stepped.choice, 1, k))} :
           \A trail \in {StepRerun(1,
                                    SubSeq(stepped.event_sequences, k + 1, StepN),
                                    SubSeq(stepped.inputs, k + 1, StepN),
                                    SubSeq(stepped.initial_state, k + 1, StepN),
                                    SubSeq(stepped.choice, k + 1, StepN))} :
             /\ lead.final_state \o trail.final_state = stepped.final_state
             /\ lead.softmax \o trail.softmax = stepped.softmax
             /\ \A i \in 1..StepN :
                  heap[stepped.event_sequences[i]] =
                    (IF i <= k THEN lead ELSE trail)
                      .heap[stepped.event_sequences[i]]

\* three candidates with different inputs and different state rows were
\* stepped as one batch of three
BatchSizeIndependentWitness ==
  /\ pc = "stepped"
  /\ stepped.bsz = 3
  /\ StepN = 3
  /\ stepped.batches = 1
  /\ stepped.inputs[1] # stepped.inputs[2]
  /\ stepped.initial_state[2] # stepped.initial_state[3]
  /\ stepped.final_state[1] # stepped.final_state[3]

\* C17: _prune_branches breaks ties by input order: of two candidates
\* with equal log-likelihoods the one with the lower input index is
\* selected whenever the other is, and when both are selected they come
\* out in input order.
PruneTiesInInputOrder ==
  LET M == Len(pruned.loglik)
      idx == pruned.indices
      ll == pruned.loglik
  IN \A a, b \in 1..M :
       (a < b /\ ll[a] = ll[b]) =>
         /\ b \in Range(idx) => a \in Range(idx)
         /\ \A p, q \in 1..Len(idx) :
              (idx[p] = a /\ idx[q] = b) =>
                /\ p < q
                /\ pc = "pruned" => /\ event_sequences[p] = pruned.event_sequences[a]
                                    /\ event_sequences[q] = pruned.event_sequences[b]

\* of three candidates with one and the same log-likelihood two were
\* kept: the cut fell inside the tie
PruneTiesInInputOrderWitness ==
  /\ pc = "pruned"
  /\ pruned.k = 2
  /\ Len(pruned.loglik) = 3
  /\ pruned.loglik[1] = pruned.loglik[2]
  /\ pruned.loglik[2] = pruned.loglik[3]
  /\ pruned.indices = <<1, 2>>

\* C18: _generate_step on no candidates (N = 0) returns an empty state
\* array and an empty probability array, raises nothing, and calls
\* neither the step function nor the encoder/decoder.
EmptyPopulationNoCalls ==
  (StepCalled /\ StepN = 0) =>
    /\ pc = "stepped"
    /\ error = "none"
    /\ stepped.final_state = <<>>
    /\ stepped.softmax = <<>>
    /\ final_state = <<>>
    /\ stepped.batches = 0
    /\ stepped.padded = 0
    /\ calls = NoCalls
    /\ heap = stepped.heap

\* _generate_step has returned from a call on no candidates with a batch
\* size above one
EmptyPopulationNoCallsWitness ==
  /\ pc = "stepped"
  /\ StepN = 0
  /\ stepped.bsz = 4

\* the _generate_step calls a search has completed so far, from its loop
\* counters
StepCallsDone ==
  LET earlier == IF iteration = 0 THEN 0
                 ELSE first_iteration_num_steps
                        + (iteration - 1) * steps_per_iteration
  IN IF pc = "branch" THEN earlier ELSE earlier + step

\* C19: with the batch size the constructor forces (1) the padding branch
\* is never taken, every step-function call carries exactly one
\* candidate, and a _beam_search call makes beam_size * branch_factor
\* step-function calls for each of its num_steps steps, that many in all.
OneCandidatePerStepCall ==
  /\ error # "TypeError"
  /\ stepped.padded = 0
  /\ stepped.pad_call = <<>>
  /\ stepped # NoStep =>
       /\ stepped.bsz = 1
       /\ stepped.batches = Len(stepped.event_sequences)
       /\ stepped.batches = beam_size * branch_factor
  /\ InSearch =>
       calls.step = beam_size * branch_factor * StepCallsDone
  /\ pc = "done" =>
       calls.step = beam_size * branch_factor * bs_num_steps

\* a search of 2 * 2 candidates over three steps in two passes has ended
\* after twelve step-function calls
OneCandidatePerStepCallWitness ==
  /\ pc = "done"
  /\ beam_size = 2
  /\ branch_factor = 2
  /\ bs_num_steps = 3
  /\ num_iterations = 1
  /\ calls.step = 12

\* C20: _generate_events never changes the caller's primer, whether it
\* returns or raises, and the sequence it returns is an object other than
\* the primer.
PrimerUntouched ==
  /\ [][heap'[primer_events] = heap[primer_events]]_vars
  /\ [](primer_events \notin Range(event_sequences))
  /\ [](pc = "raised" => result = <<>>)
  /\ [](pc = "done" => /\ Len(result) = 1
                       /\ result[1] # primer_events
                       /\ result[1] \in DOMAIN heap)

\* a sampled generation has returned a sequence longer than the primer by
\* two events
PrimerUntouchedWitness ==
  /\ pc = "done"
  /\ policy = "sample"
  /\ Len(Primer) = 1
  /\ result # <<primer_events>>
  /\ Len(heap[result[1]].events) = Len(Primer) + 2
====
